---- MODULE Spec2Model ----
(***************************************************************************)
(* Model of the reverse-proxy autoscaling lifecycle hook                   *)
(* (src/lambda/asgLifeCycleHooks/reverseProxy/index.py).                   *)
(*                                                                         *)
(* One invocation of handler(event, context) is a walk through the body    *)
(* of one of its two try/except blocks.  Every collaborator call is one    *)
(* step whose outcome (return or raise) is chosen by the environment.      *)
(* The calls issued are recorded, in order, in the history variable calls. *)
(***************************************************************************)
EXTENDS Integers, Sequences, FiniteSets, TLC

\* ------------------------------------------------------------------ bounds
\* number of distinct values an identifier field of the event may take
MaxId == 2
\* number of distinct public DNS names the metadata lookup may return
MaxAddr == 2

\* ----------------------------------------------------- process configuration
R53_HOSTED_ZONE_ID == "R53_HOSTED_ZONE_ID"
ARTIFACTS_BUCKET == "ARTIFACTS_BUCKET"
NUCLEUS_ROOT_DOMAIN == "example.com"
NUCLEUS_DOMAIN_PREFIX == "nucleus"
NUCLEUS_SERVER_ADDRESS == "NUCLEUS_SERVER_ADDRESS"
REVERSE_PROXY_SSL_CERT_ARN == "REVERSE_PROXY_SSL_CERT_ARN"

\* f"{NUCLEUS_DOMAIN_PREFIX}.{NUCLEUS_ROOT_DOMAIN}"
Domain == NUCLEUS_DOMAIN_PREFIX \o "." \o NUCLEUS_ROOT_DOMAIN

\* ------------------------------------------------------------------- events
LAUNCHING == "autoscaling:EC2_INSTANCE_LAUNCHING"
TERMINATING == "autoscaling:EC2_INSTANCE_TERMINATING"
\* a transition string the handler does not recognise
LAUNCH_ERROR == "autoscaling:EC2_INSTANCE_LAUNCH_ERROR"
Transitions == {LAUNCHING, TERMINATING, LAUNCH_ERROR}

\* keys of event["detail"] read by send_lifecycle_action
ReportKeys ==
    {"LifecycleHookName", "AutoScalingGroupName", "LifecycleActionToken",
     "EC2InstanceId"}
\* keys of event["detail"] read by handler itself
HandlerKeys == {"EC2InstanceId", "LifecycleTransition"}
IdKeys == ReportKeys
DetailKeys == ReportKeys \cup HandlerKeys

\* event["detail"]: a dict in which any key may be absent
Details ==
    { [k \in S |-> IF k = "LifecycleTransition" THEN t ELSE f[k]] :
        S \in SUBSET DetailKeys, t \in Transitions, f \in [IdKeys -> 1..MaxId] }

NoRecord == 0
Addresses == 1..MaxAddr
NoAddress == 0
NoInstance == 0

\* ------------------------------------------------------------ handler body
Step(fn, result) == [fn |-> fn, result |-> result]

GetAddress == Step("ec2.get_instance_public_dns_name", "-")
Upsert == Step("r53.update_hosted_zone_cname_record", "-")
Delete == Step("r53.delete_hosted_zone_cname_record", "-")
Provision == Step("update_nginix_config", "-")
Continue == Step("send_lifecycle_action", "CONTINUE")
Abandon == Step("send_lifecycle_action", "ABANDON")

\* variants of the definitions below
\* the provisioner is dispatched before the DNS record is written
LaunchTry_ProvisionFirst == <<GetAddress, Provision, Upsert, Continue>>
\* CONTINUE is reported before the provisioner has been dispatched
LaunchTry_ReportEarly == <<GetAddress, Upsert, Continue, Provision>>
\* the except block undoes the DNS change before it reports
LaunchExcept_Rollback == <<Delete, Abandon>>
\* the terminate branch copies the launch branch's provisioning
TerminateTry_Provision == <<GetAddress, Delete, Provision, Continue>>
\* the except block reports twice
TerminateExcept_Twice == <<Abandon, Abandon>>

\* body of the try block of the launch branch
LaunchTry == <<GetAddress, Upsert, Provision, Continue>>
\* body of the except block of the launch branch
LaunchExcept == <<Abandon>>
\* body of the try block of the terminate branch
TerminateTry == <<GetAddress, Delete, Continue>>
\* body of the except block of the terminate branch
TerminateExcept == <<Abandon>>

\* variant: the second test is a plain else
Dispatch_Else(t) == IF t = LAUNCHING THEN "launch" ELSE "terminate"

\* the if / elif on transition; "none" when neither condition holds
Dispatch(t) ==
    IF t = LAUNCHING THEN "launch"
    ELSE IF t = TERMINATING THEN "terminate"
    ELSE "none"

Body(b, phase) ==
    IF b = "launch"
    THEN (IF phase = "try" THEN LaunchTry ELSE LaunchExcept)
    ELSE (IF phase = "try" THEN TerminateTry ELSE TerminateExcept)

\* variant: an exception raised in the except body is swallowed
OnRaise_Swallow(phase) == IF phase = "try" THEN "except" ELSE "returned"

\* where an exception raised in a phase goes: the try body's exceptions are
\* caught by "except Exception", the except body's exceptions leave handler
OnRaise(phase) == IF phase = "try" THEN "except" ELSE "raised"

\* variant: hook name and group name are exchanged
SendArgs_Swapped(d, result) ==
    [LifecycleHookName |-> d["AutoScalingGroupName"],
     AutoScalingGroupName |-> d["LifecycleHookName"],
     LifecycleActionToken |-> d["LifecycleActionToken"],
     LifecycleActionResult |-> result,
     InstanceId |-> d["EC2InstanceId"]]

\* keyword arguments of autoscaling.complete_lifecycle_action
SendArgs(d, result) ==
    [LifecycleHookName |-> d["LifecycleHookName"],
     AutoScalingGroupName |-> d["AutoScalingGroupName"],
     LifecycleActionToken |-> d["LifecycleActionToken"],
     LifecycleActionResult |-> result,
     InstanceId |-> d["EC2InstanceId"]]

\* does send_lifecycle_action raise, given the outcome of the API call
SendRaises(outcome) == outcome # "ok"

\* ------------------------------------------------- external DNS (CNAME) state
UpsertRecord(record, address) == address
DeleteRecord(record, address) == IF record = address THEN NoRecord ELSE record

\* -------------------------------------------------------------------- state
VARIABLES detail, pc, branch, idx, instanceId, address, calls, dns

vars == <<detail, pc, branch, idx, instanceId, address, calls, dns>>

Call(op, args, outcome, result) ==
    [op |-> op, args |-> args, outcome |-> outcome, result |-> result]

Running == pc \in {"try", "except"}
CurrentStep == Body(branch, pc)[idx]

\* the current step returned normally
Advance ==
    IF idx < Len(Body(branch, pc))
    THEN /\ idx' = idx + 1
         /\ pc' = pc
    ELSE /\ idx' = 0
         /\ pc' = "returned"

\* the current step raised
Raise ==
    /\ pc' = OnRaise(pc)
    /\ idx' = IF OnRaise(pc) = "except" THEN 1 ELSE 0

Finish(outcome) == IF outcome = "ok" THEN Advance ELSE Raise

\* no invocation in progress: the process holds no event
NoEvent == [k \in {} |-> 0]

Init ==
    /\ detail = NoEvent
    /\ pc = "idle"
    /\ branch = "none"
    /\ idx = 0
    /\ instanceId = NoInstance
    /\ address = NoAddress
    /\ calls = <<>>
    /\ dns \in {NoRecord} \cup Addresses

\* handler(event, context), up to the choice of branch
Invoke ==
    /\ pc = "idle"
    /\ \E d \in Details :
        /\ detail' = d
        /\ IF HandlerKeys \subseteq DOMAIN d
           THEN /\ instanceId' = d["EC2InstanceId"]
                /\ branch' = Dispatch(d["LifecycleTransition"])
                /\ IF Dispatch(d["LifecycleTransition"]) = "none"
                   THEN pc' = "returned" /\ idx' = 0
                   ELSE pc' = "try" /\ idx' = 1
           ELSE \* KeyError outside both try blocks
                /\ pc' = "raised"
                /\ UNCHANGED <<instanceId, branch, idx>>
    /\ UNCHANGED <<address, calls, dns>>

GetAddressStep ==
    /\ Running
    /\ CurrentStep = GetAddress
    /\ \/ \E a \in Addresses :
            /\ calls' = Append(calls,
                   Call(GetAddress.fn, <<instanceId>>, "ok", a))
            /\ address' = a
            /\ Advance
       \/ /\ calls' = Append(calls,
                   Call(GetAddress.fn, <<instanceId>>, "Error", NoAddress))
          /\ address' = address
          /\ Raise
    /\ UNCHANGED <<detail, branch, instanceId, dns>>

UpsertStep ==
    /\ Running
    /\ CurrentStep = Upsert
    /\ \E outcome \in {"ok", "Error"} :
            /\ calls' = Append(calls,
                   Call(Upsert.fn,
                        <<R53_HOSTED_ZONE_ID, NUCLEUS_ROOT_DOMAIN,
                          NUCLEUS_DOMAIN_PREFIX, address>>,
                        outcome, NoAddress))
            /\ dns' = IF outcome = "ok" THEN UpsertRecord(dns, address) ELSE dns
            /\ Finish(outcome)
    /\ UNCHANGED <<detail, branch, instanceId, address>>

DeleteStep ==
    /\ Running
    /\ CurrentStep = Delete
    /\ \E outcome \in {"ok", "Error"} :
            /\ calls' = Append(calls,
                   Call(Delete.fn,
                        <<R53_HOSTED_ZONE_ID, NUCLEUS_ROOT_DOMAIN,
                          NUCLEUS_DOMAIN_PREFIX, address>>,
                        outcome, NoAddress))
            /\ dns' = IF outcome = "ok" THEN DeleteRecord(dns, address) ELSE dns
            /\ Finish(outcome)
    /\ UNCHANGED <<detail, branch, instanceId, address>>

ProvisionStep ==
    /\ Running
    /\ CurrentStep = Provision
    /\ \E outcome \in {"ok", "Error"} :
            /\ calls' = Append(calls,
                   Call("ssm.run_commands",
                        <<instanceId, ARTIFACTS_BUCKET, NUCLEUS_SERVER_ADDRESS,
                          REVERSE_PROXY_SSL_CERT_ARN, Domain>>,
                        outcome, NoAddress))
            /\ Finish(outcome)
    /\ UNCHANGED <<detail, branch, instanceId, address, dns>>

\* send_lifecycle_action(event, result)
ReportStep ==
    /\ Running
    /\ CurrentStep.fn = "send_lifecycle_action"
    /\ IF ReportKeys \subseteq DOMAIN detail
       THEN \E outcome \in {"ok", "ClientError", "Error"} :
            /\ calls' = Append(calls,
                   Call("autoscaling.complete_lifecycle_action",
                        SendArgs(detail, CurrentStep.result),
                        outcome, NoAddress))
            /\ IF SendRaises(outcome) THEN Raise ELSE Advance
       ELSE \* KeyError while the keyword arguments are evaluated
            /\ calls' = calls
            /\ Raise
    /\ UNCHANGED <<detail, branch, instanceId, address, dns>>

\* the invocation is over (handler returned or raised); the event and the
\* locals are discarded, the external DNS state stays
Exit ==
    /\ pc \in {"returned", "raised"}
    /\ detail' = NoEvent
    /\ pc' = "idle"
    /\ branch' = "none"
    /\ idx' = 0
    /\ instanceId' = NoInstance
    /\ address' = NoAddress
    /\ calls' = <<>>
    /\ dns' = dns

Next ==
    \/ Invoke
    \/ GetAddressStep
    \/ UpsertStep
    \/ DeleteStep
    \/ ProvisionStep
    \/ ReportStep
    \/ Exit

Spec == Init /\ [][Next]_vars

\* ---------------------------------------------------------------- properties
CompleteLifecycleAction == "autoscaling.complete_lifecycle_action"
RunCommands == "ssm.run_commands"

\* the invocation is over
Done == pc \in {"returned", "raised"}
\* the event carries every field of a Lifecycle Event
WellFormed == DetailKeys \subseteq DOMAIN detail
Launch == WellFormed /\ detail["LifecycleTransition"] = LAUNCHING
Terminate == WellFormed /\ detail["LifecycleTransition"] = TERMINATING

\* positions in calls of the calls to one collaborator
Ops(op) == {i \in DOMAIN calls : calls[i].op = op}
AllReports == Ops(CompleteLifecycleAction)
Reports(result) ==
    {i \in AllReports : calls[i].args.LifecycleActionResult = result}
Failed == {i \in DOMAIN calls : calls[i].outcome # "ok"}
AllOk == Failed = {}
DnsArgs(a) ==
    <<R53_HOSTED_ZONE_ID, NUCLEUS_ROOT_DOMAIN, NUCLEUS_DOMAIN_PREFIX, a>>
\* the address returned by a lookup for the event's instance before position i
Resolved(i, a) ==
    \E l \in Ops(GetAddress.fn) :
        /\ l < i
        /\ calls[l].args = <<detail["EC2InstanceId"]>>
        /\ calls[l].outcome = "ok"
        /\ calls[l].result = a

\* C1: in a launch invocation every provisioning call is preceded by a DNS
\* upsert for the fixed hostname and the address resolved for the event's
\* instance; when the invocation is over and every call succeeded, that upsert
\* and the provisioning call were both issued and CONTINUE was reported
\* exactly once (and ABANDON never).
C1_UpsertBeforeProvisionThenContinue ==
    Launch =>
        /\ \A p \in Ops(RunCommands) :
              \E u \in Ops(Upsert.fn) :
                  /\ u < p
                  /\ \E a \in Addresses :
                        calls[u].args = DnsArgs(a) /\ Resolved(u, a)
        /\ (Done /\ AllOk) =>
              /\ Cardinality(Ops(Upsert.fn)) = 1
              /\ Cardinality(Ops(RunCommands)) = 1
              /\ \A p \in Ops(RunCommands) :
                    calls[p].args[1] = detail["EC2InstanceId"]
                    /\ calls[p].args[5] = "nucleus.example.com"
              /\ Cardinality(Reports("CONTINUE")) = 1
              /\ Reports("ABANDON") = {}
              /\ \A r \in Reports("CONTINUE") : r = Len(calls)

C1_Witness ==
    /\ Launch /\ pc = "returned" /\ AllOk
    /\ Len(calls) = 4
    /\ calls[2].op = Upsert.fn
    /\ calls[3].op = RunCommands
    /\ calls[4].args.LifecycleActionResult = "CONTINUE"

\* C2: when an invocation of a recognised branch is over and some collaborator
\* call raised, the call right after the first call that raised is an ABANDON
\* report, it is the only ABANDON report, and it is the last call issued.
C2_FailureAbandonsOnce ==
    (Done /\ (Launch \/ Terminate) /\ Failed # {}) =>
        \E f \in Failed :
            /\ \A g \in Failed : f <= g
            /\ Len(calls) = f + 1
            /\ Reports("ABANDON") = {f + 1}

C2_Witness ==
    /\ Done /\ Terminate
    /\ Len(calls) = 3
    /\ calls[2].op = Delete.fn /\ calls[2].outcome # "ok"
    /\ Reports("ABANDON") = {3}

\* C3 (as claimed): when an invocation of a recognised branch is over, exactly
\* one lifecycle report call has been made.
C3_ExactlyOneReportCall ==
    (Done /\ (Launch \/ Terminate)) => Cardinality(AllReports) = 1

\* C4: a terminate invocation never calls the remote provisioner; when it is
\* over and every call succeeded, the DNS delete for the fixed hostname (and
\* the resolved address) was issued once and CONTINUE was reported exactly
\* once (and ABANDON never).
C4_TerminateDeletesThenContinues ==
    Terminate =>
        /\ Ops(RunCommands) = {}
        /\ Ops(Upsert.fn) = {}
        /\ (Done /\ AllOk) =>
              /\ Cardinality(Ops(Delete.fn)) = 1
              /\ \A x \in Ops(Delete.fn) :
                    \E a \in Addresses :
                        calls[x].args = DnsArgs(a) /\ Resolved(x, a)
              /\ Cardinality(Reports("CONTINUE")) = 1
              /\ Reports("ABANDON") = {}

C4_Witness ==
    /\ Terminate /\ pc = "returned" /\ AllOk
    /\ Len(calls) = 3
    /\ calls[2].op = Delete.fn
    /\ calls[3].args.LifecycleActionResult = "CONTINUE"

\* C5 (as claimed): when the invocation for an event lacking a required field
\* is over, the failure was caught inside handler (handler returned) and an
\* ABANDON report call was made.
C5_MalformedEventAbandons ==
    (Done /\ ~WellFormed
          /\ ("LifecycleTransition" \in DOMAIN detail
                 => detail["LifecycleTransition"] \in {LAUNCHING, TERMINATING}))
        => (pc = "returned" /\ Reports("ABANDON") # {})

\* C6: for an event whose transition is neither recognised string (and that
\* carries the instance identifier handler reads first), handler makes no
\* collaborator call at all and returns normally.
C6_UnrecognisedTransitionIsIgnored ==
    (/\ pc # "idle"
     /\ HandlerKeys \subseteq DOMAIN detail
     /\ detail["LifecycleTransition"] \notin {LAUNCHING, TERMINATING})
        => (calls = <<>> /\ pc = "returned")

C6_Witness ==
    /\ pc = "returned"
    /\ HandlerKeys \subseteq DOMAIN detail
    /\ detail["LifecycleTransition"] = LAUNCH_ERROR

\* C7: every lifecycle report call, CONTINUE or ABANDON, carries the hook
\* name, group name, action token and instance identifier of the event of the
\* invocation.
C7_ReportEchoesEvent ==
    \A r \in AllReports :
        /\ calls[r].args.LifecycleHookName = detail["LifecycleHookName"]
        /\ calls[r].args.AutoScalingGroupName = detail["AutoScalingGroupName"]
        /\ calls[r].args.LifecycleActionToken = detail["LifecycleActionToken"]
        /\ calls[r].args.InstanceId = detail["EC2InstanceId"]

C7_Witness ==
    /\ Done
    /\ Reports("CONTINUE") # {} /\ Reports("ABANDON") # {}
    /\ detail["LifecycleHookName"] # detail["AutoScalingGroupName"]
    /\ detail["LifecycleActionToken"] # detail["EC2InstanceId"]

\* C8: when an ABANDON report call fails, handler has raised (it does not
\* complete normally) and the failed call is the last collaborator call.
C8_AbandonFailureIsFatal ==
    \A r \in Reports("ABANDON") :
        calls[r].outcome # "ok" => (pc = "raised" /\ r = Len(calls))

C8_Witness ==
    /\ pc = "raised"
    /\ \E r \in Reports("ABANDON") : calls[r].outcome = "ClientError"

\* C9: in the launch branch, once the DNS upsert has succeeded and a later
\* call has failed, no DNS delete and no second upsert is issued, and when
\* ABANDON is reported the record still holds the upserted address.
C9_NoRollback ==
    \A u \in Ops(Upsert.fn) :
        (/\ branch = "launch"
         /\ calls[u].outcome = "ok"
         /\ \E f \in Failed : f > u)
            => /\ Ops(Delete.fn) = {}
               /\ Ops(Upsert.fn) = {u}
               /\ Reports("ABANDON") # {} => dns = calls[u].args[4]

C9_Witness ==
    /\ branch = "launch" /\ Done
    /\ Len(calls) = 4
    /\ calls[2].op = Upsert.fn /\ calls[2].outcome = "ok"
    /\ calls[3].op = RunCommands /\ calls[3].outcome # "ok"
    /\ Reports("ABANDON") = {4}
    /\ dns = address

\* C10: an ABANDON report is attempted only when no earlier report call of the
\* invocation succeeded; at most one report call succeeds.
C10_NoConflictingReports ==
    /\ \A r \in Reports("ABANDON") :
          \A q \in AllReports : q < r => calls[q].outcome # "ok"
    /\ Cardinality({r \in AllReports : calls[r].outcome = "ok"}) <= 1

C10_Witness ==
    /\ pc = "returned"
    /\ \E q \in Reports("CONTINUE") : calls[q].outcome # "ok"
    /\ \E r \in Reports("ABANDON") : calls[r].outcome = "ok"

====
